---- MODULE Spec2Model ----
(***************************************************************************)
(* The upload-and-analyze pipeline: the analysis relay (an express handler *)
(* behind a multer upload middleware, one call to an external model, the   *)
(* extraction of JSON from its reply) and the upload client (a React       *)
(* component: working list, submit, resize, one POST, result or toast, a   *)
(* cosmetic progress timer).                                               *)
(*                                                                         *)
(* Texts are sequences of one-character strings.  JSON values are records  *)
(* of one shape, so that any two of them can be compared.                  *)
(***************************************************************************)
EXTENDS Integers, Sequences, FiniteSets, TLC

\* ------------------------------------------------------------------ text

\* s[i..j] as a sequence (empty when j < i).
Slice(s, i, j) == [k \in 1..(j - i + 1) |-> s[i + k - 1]]

\* String.prototype.startsWith.
StartsWith(s, p) == Len(s) >= Len(p) /\ Slice(s, 1, Len(p)) = p

\* Whether pat occurs in s at position i.
MatchAt(s, pat, i) == i + Len(pat) - 1 <= Len(s) /\ Slice(s, i, i + Len(pat) - 1) = pat

RECURSIVE ReplaceFrom(_, _, _)
\* String.prototype.replace(/pat/g, ''): the non-overlapping occurrences of
\* pat, found left to right, are removed.
ReplaceFrom(s, pat, i) ==
    IF i > Len(s) THEN <<>>
    ELSE IF MatchAt(s, pat, i) THEN ReplaceFrom(s, pat, i + Len(pat))
    ELSE <<s[i]>> \o ReplaceFrom(s, pat, i + 1)

ReplaceAll(s, pat) == ReplaceFrom(s, pat, 1)

\* The white space String.prototype.trim removes, of the characters in use.
WhiteSpace == {" ", "\n"}

RECURSIVE TrimStart(_)
TrimStart(s) == IF s # <<>> /\ Head(s) \in WhiteSpace THEN TrimStart(Tail(s)) ELSE s

RECURSIVE TrimEnd(_)
TrimEnd(s) ==
    IF s # <<>> /\ s[Len(s)] \in WhiteSpace THEN TrimEnd(Slice(s, 1, Len(s) - 1)) ELSE s

\* String.prototype.trim.
Trim(s) == TrimEnd(TrimStart(s))

\* The grave accent (U+0060): the module's lexer takes none inside a string,
\* so the character is named.
Grave == "GRAVE"

\* The fence marker: three grave accents.
Backticks == <<Grave, Grave, Grave>>
BackticksJson == Backticks \o <<"j", "s", "o", "n">>

\* aiContent.replace(/<fence>json/g, '').replace(/<fence>/g, ''): every
\* occurrence of the marker, wherever it stands in the text.
StripFences(s) == ReplaceAll(ReplaceAll(s, BackticksJson), Backticks)

\* The clean-up of the model's reply before it is parsed.
CleanContent(s) == Trim(StripFences(s))

\* ------------------------------------------------------------------ JSON

\* JavaScript values as JSON.parse yields them.  k is the kind; b, n, s, m
\* hold a boolean, a number, a string's characters, an object's members
\* (<<key, value>> pairs) or an array's elements (<<index, value>> pairs).
JNull == [k |-> "null", b |-> FALSE, n |-> 0, s |-> <<>>, m |-> <<>>]
JBool(x) == [k |-> "bool", b |-> x, n |-> 0, s |-> <<>>, m |-> <<>>]
JNum(x) == [k |-> "num", b |-> FALSE, n |-> x, s |-> <<>>, m |-> <<>>]
JStr(x) == [k |-> "str", b |-> FALSE, n |-> 0, s |-> x, m |-> <<>>]
JObj(x) == [k |-> "obj", b |-> FALSE, n |-> 0, s |-> <<>>, m |-> x]
JArr(x) == [k |-> "arr", b |-> FALSE, n |-> 0, s |-> <<>>, m |-> x]

\* JavaScript's truthiness: null, false, 0 and "" are falsy, every object
\* and array is truthy.
Truthy(v) ==
    CASE v.k = "null" -> FALSE
      [] v.k = "bool" -> v.b
      [] v.k = "num" -> v.n # 0
      [] v.k = "str" -> v.s # <<>>
      [] OTHER -> TRUE

Digits == <<"0", "1", "2", "3", "4", "5", "6", "7", "8", "9">>
DigitChars == {Digits[i] : i \in 1..10}
DigitValue(c) == (CHOOSE i \in 1..10 : Digits[i] = c) - 1

\* JSON's white space, of the characters in use.
JsonSpace == {" ", "\n"}

\* A parse result: ok, the value, and the position after it.
Fail == [ok |-> FALSE, val |-> JNull, next |-> 0]
Ok(v, i) == [ok |-> TRUE, val |-> v, next |-> i]

RECURSIVE SkipSpace(_, _)
SkipSpace(s, i) == IF i <= Len(s) /\ s[i] \in JsonSpace THEN SkipSpace(s, i + 1) ELSE i

RECURSIVE StringEnd(_, _)
\* The position of the quote that closes a string whose characters start at
\* i, or 0: an unescaped control character or a backslash (escapes are not
\* among the texts in use) ends the parse.
StringEnd(s, i) ==
    IF i > Len(s) THEN 0
    ELSE IF s[i] = "\"" THEN i
    ELSE IF s[i] \in {"\n", "\\"} THEN 0
    ELSE StringEnd(s, i + 1)

ParseString(s, i) ==
    IF i <= Len(s) /\ s[i] = "\""
    THEN LET e == StringEnd(s, i + 1)
         IN IF e = 0 THEN Fail ELSE Ok(JStr(Slice(s, i + 1, e - 1)), e + 1)
    ELSE Fail

RECURSIVE NumberEnd(_, _)
NumberEnd(s, i) == IF i <= Len(s) /\ s[i] \in DigitChars THEN NumberEnd(s, i + 1) ELSE i

RECURSIVE NumberValue(_, _, _)
NumberValue(s, i, e) ==
    IF e < i THEN 0 ELSE 10 * NumberValue(s, i, e - 1) + DigitValue(s[e])

\* An unsigned integer without a leading zero (the numbers in use).
ParseNumber(s, i) ==
    LET e == NumberEnd(s, i)
    IN IF e = i \/ (s[i] = "0" /\ e > i + 1) THEN Fail
       ELSE Ok(JNum(NumberValue(s, i, e - 1)), e)

ParseLiteral(s, i, word, v) ==
    IF MatchAt(s, word, i) THEN Ok(v, i + Len(word)) ELSE Fail

RECURSIVE ParseValue(_, _)
RECURSIVE ParseMembers(_, _, _)
RECURSIVE ParseElements(_, _, _)

\* The members of an object after its "{" or after a ",": acc holds the
\* members read so far.
ParseMembers(s, i, acc) ==
    LET key == ParseString(s, SkipSpace(s, i))
    IN IF ~key.ok THEN Fail
       ELSE LET c == SkipSpace(s, key.next)
            IN IF c > Len(s) \/ s[c] # ":" THEN Fail
               ELSE LET v == ParseValue(s, c + 1)
                    IN IF ~v.ok THEN Fail
                       ELSE LET members == Append(acc, <<key.val.s, v.val>>)
                                d == v.next
                            IN IF d > Len(s) THEN Fail
                               ELSE IF s[d] = "}" THEN Ok(JObj(members), d + 1)
                               ELSE IF s[d] = "," THEN ParseMembers(s, d + 1, members)
                               ELSE Fail

\* The elements of an array after its "[" or after a ",".
ParseElements(s, i, acc) ==
    LET v == ParseValue(s, i)
    IN IF ~v.ok THEN Fail
       ELSE LET elements == Append(acc, <<Len(acc), v.val>>)
                d == v.next
            IN IF d > Len(s) THEN Fail
               ELSE IF s[d] = "]" THEN Ok(JArr(elements), d + 1)
               ELSE IF s[d] = "," THEN ParseElements(s, d + 1, elements)
               ELSE Fail

\* One JSON value with the white space around it, from position i.
ParseValue(s, i) ==
    LET j == SkipSpace(s, i)
        r == IF j > Len(s) THEN Fail
             ELSE IF s[j] = "\"" THEN ParseString(s, j)
             ELSE IF s[j] \in DigitChars THEN ParseNumber(s, j)
             ELSE IF s[j] = "n" THEN ParseLiteral(s, j, <<"n", "u", "l", "l">>, JNull)
             ELSE IF s[j] = "t" THEN ParseLiteral(s, j, <<"t", "r", "u", "e">>, JBool(TRUE))
             ELSE IF s[j] = "f"
                  THEN ParseLiteral(s, j, <<"f", "a", "l", "s", "e">>, JBool(FALSE))
             ELSE IF s[j] = "{"
                  THEN LET c == SkipSpace(s, j + 1)
                       IN IF c <= Len(s) /\ s[c] = "}" THEN Ok(JObj(<<>>), c + 1)
                          ELSE ParseMembers(s, j + 1, <<>>)
             ELSE IF s[j] = "["
                  THEN LET c == SkipSpace(s, j + 1)
                       IN IF c <= Len(s) /\ s[c] = "]" THEN Ok(JArr(<<>>), c + 1)
                          ELSE ParseElements(s, j + 1, <<>>)
             ELSE Fail
    IN IF r.ok THEN Ok(r.val, SkipSpace(s, r.next)) ELSE Fail

\* JSON.parse: the whole text is one value; anything else throws.
JSONParse(s) ==
    LET r == ParseValue(s, 1)
    IN IF r.ok /\ r.next = Len(s) + 1 THEN [ok |-> TRUE, val |-> r.val]
       ELSE [ok |-> FALSE, val |-> JNull]

\* ----------------------------------------------------------------- relay

\* limits.fileSize: 10 * 1024 * 1024 bytes per file.
fileSize == 10485760

\* upload.array('images', 5): at most five files under the field.
maxCount == 5

ImagePrefix == <<"i", "m", "a", "g", "e", "/">>
ImagePng == ImagePrefix \o <<"p", "n", "g">>
ImageJpeg == ImagePrefix \o <<"j", "p", "e", "g">>
TextPlain == <<"t", "e", "x", "t", "/", "p", "l", "a", "i", "n">>

\* The longest batch a request carries.
MaxBatch == 6

\* The entries a request made by any HTTP client may carry: an image well
\* under the cap, a file that is no image, an image over the cap, and an
\* image of exactly the cap.
HttpFiles ==
    { [mimetype |-> ImagePng, size |-> 500000, originalname |-> 0],
      [mimetype |-> TextPlain, size |-> 500000, originalname |-> 0],
      [mimetype |-> ImageJpeg, size |-> fileSize + 1, originalname |-> 0],
      [mimetype |-> ImageJpeg, size |-> fileSize, originalname |-> 0] }

RECURSIVE SeqsUpTo(_, _)
\* The sequences over S of length at most n.
SeqsUpTo(S, n) ==
    IF n = 0 THEN {<<>>}
    ELSE LET shorter == SeqsUpTo(S, n - 1)
         IN shorter \cup {Append(q, e) : q \in {t \in shorter : Len(t) = n - 1}, e \in S}

\* A request: a multipart body with its entries under the field images, or
\* a body that is not multipart (multer then leaves req.files unset).
HttpRequests ==
    {[multipart |-> TRUE, parts |-> q] : q \in SeqsUpTo(HttpFiles, MaxBatch)}
        \cup {[multipart |-> FALSE, parts |-> <<>>]}

NoRequest == [multipart |-> FALSE, parts |-> <<>>]

\* A filter that lets every file through.
fileFilterAny(file) == TRUE

\* The fileFilter: cb(null, true) for a file whose mimetype starts with
\* "image/", cb(new Error(...), false) for any other.
fileFilter(file) == StartsWith(file.mimetype, ImagePrefix)

\* Whether the upload layer's size limit stops a file.  A file over the cap
\* always is; at exactly the cap the installed multipart parser decides
\* (atCap: whether it counts a file that reaches the limit as over it).
OverLimit(file, atCap) == file.size > fileSize \/ (atCap /\ file.size = fileSize)

\* The errors of the upload layer and of the handler, as message parts.
OnlyImages == "Only image files are allowed!"
FileTooLarge == "File too large"
UnexpectedField == "Unexpected field"
UploadErrorPrefix == "upload error: "
AtLeastTwo == "at least 2 images"
ParseFailed == "AI output format could not be parsed"
InternalErrorPrefix == "internal server error: "

NoError == [multer |-> FALSE, message |-> ""]

RECURSIVE UploadFrom(_, _, _)
\* upload.array('images', 5) over the entries in their order: the first entry
\* past the count, refused by the filter or over the size limit ends the
\* upload with its error; otherwise every entry is kept in req.files.
UploadFrom(parts, i, atCap) ==
    IF i > Len(parts) THEN NoError
    ELSE IF i > maxCount THEN [multer |-> TRUE, message |-> UnexpectedField]
    ELSE IF ~fileFilter(parts[i]) THEN [multer |-> FALSE, message |-> OnlyImages]
    ELSE IF OverLimit(parts[i], atCap) THEN [multer |-> TRUE, message |-> FileTooLarge]
    ELSE UploadFrom(parts, i + 1, atCap)

UploadArray(request, atCap) == UploadFrom(request.parts, 1, atCap)

\* req.files: unset, or the list of the files kept.
NoFiles == [set |-> FALSE, list |-> <<>>]
Files(list) == [set |-> TRUE, list |-> list]

\* The first stage's answer to an upload error: 400, with the prefix for a
\* MulterError and the bare message for any other error.
UploadErrorResponse(err) ==
    [status |-> 400,
     body |-> [success |-> FALSE,
               message |-> IF err.multer THEN <<UploadErrorPrefix, err.message>>
                           ELSE <<err.message>>]]

\* The count check with its bound off by one.
TooFewFilesBelowOne(f) == ~f.set \/ Len(f.list) < 1

\* !req.files || req.files.length < 2
TooFewFiles(f) == ~f.set \/ Len(f.list) < 2

TooFewResponse == [status |-> 400, body |-> [success |-> FALSE, message |-> <<AtLeastTwo>>]]

\* contentParts: the instruction text, then one image_url part per file in
\* upload order, its url the data URI of the file's mimetype and bytes.
ContentParts(list) ==
    <<[type |-> "text", mime |-> <<>>, bytes |-> 0]>>
        \o [i \in 1..Len(list) |->
              [type |-> "image_url",
               mime |-> IF list[i].mimetype # <<>> THEN list[i].mimetype ELSE ImageJpeg,
               bytes |-> list[i].size]]

\* ------------------------------------------------- the external model

ObjA1 == <<"{", "\"", "a", "\"", ":", "1", "}">>
ObjFence == <<"{", "\"", "a", "\"", ":", "\"", Grave, Grave, Grave, "\"", "}">>
NotJson == <<"n", "o", " ", "w", "a", "y">>
NotJsonFence == <<"n", "o", Grave, Grave, Grave, "w", "a", "y">>
Wrapped(open, body) == open \o <<"\n">> \o body \o <<"\n">> \o Backticks

\* The replies of the model in use: JSON texts bare, fenced and padded, a
\* JSON text with the fence marker inside a string, the falsy JSON values,
\* and texts that are no JSON (bare, fenced, with the marker inside, empty).
Replies ==
    { ObjA1,
      Wrapped(BackticksJson, ObjA1),
      Wrapped(Backticks, ObjA1),
      <<" ", "\n">> \o ObjA1 \o <<"\n">>,
      ObjFence,
      <<"n", "u", "l", "l">>,
      <<"0">>,
      <<"f", "a", "l", "s", "e">>,
      <<"\"", "\"">>,
      <<"[", "1", ",", "t", "r", "u", "e", "]">>,
      NotJson,
      Wrapped(BackticksJson, NotJson),
      NotJsonFence,
      <<>> }

TypeErrorUndefined == "Cannot read properties of undefined (reading 'message')"
TypeErrorNull == "Cannot read properties of null (reading 'replace')"
ConnectionError == "Connection error."

\* What awaiting client.chat.completions.create yields: it throws, or it
\* returns a completion with no choice, with a choice whose content is null,
\* or with a choice whose content is a text.
Threw(detail) == [threw |-> TRUE, detail |-> detail, choices |-> <<>>]
Completion(choices) == [threw |-> FALSE, detail |-> "", choices |-> choices]
NullContent == [isText |-> FALSE, content |-> <<>>]
TextContent(t) == [isText |-> TRUE, content |-> t]

ModelOutcomes ==
    {Threw(ConnectionError), Completion(<<>>), Completion(<<NullContent>>)}
        \cup {Completion(<<TextContent(t)>>) : t \in Replies}

NoOutcome == Completion(<<>>)

\* A catch that answers with the prefix alone.
InternalErrorResponseBare(detail) ==
    [status |-> 500, body |-> [success |-> FALSE, message |-> <<InternalErrorPrefix>>]]

\* The catch of the handler: 500 with the error's message after the prefix.
InternalErrorResponse(detail) ==
    [status |-> 500,
     body |-> [success |-> FALSE, message |-> <<InternalErrorPrefix, detail>>]]

\* The catch of JSON.parse: 500 with the cleaned text as raw.
ParseFailedResponse(aiContent) ==
    [status |-> 500,
     body |-> [success |-> FALSE, message |-> <<ParseFailed>>, raw |-> aiContent]]

\* res.json({ success: true, data: parsedResult })
SuccessResponse(parsedResult) ==
    [status |-> 200, body |-> [success |-> TRUE, data |-> parsedResult]]

\* A handler that hands back the reply as received, not the cleaned text, when
\* the parse fails.
AfterModelRawAsReceived(outcome) ==
    IF outcome.threw THEN InternalErrorResponse(outcome.detail)
    ELSE IF outcome.choices = <<>> THEN InternalErrorResponse(TypeErrorUndefined)
    ELSE IF ~outcome.choices[1].isText THEN InternalErrorResponse(TypeErrorNull)
    ELSE LET parsed == JSONParse(CleanContent(outcome.choices[1].content))
         IN IF parsed.ok THEN SuccessResponse(parsed.val)
            ELSE ParseFailedResponse(outcome.choices[1].content)

\* Steps 4 and 5 of the handler, and its catch: what the handler answers
\* once the awaited call has settled with outcome.
AfterModel(outcome) ==
    IF outcome.threw THEN InternalErrorResponse(outcome.detail)
    ELSE IF outcome.choices = <<>> THEN InternalErrorResponse(TypeErrorUndefined)
    ELSE IF ~outcome.choices[1].isText THEN InternalErrorResponse(TypeErrorNull)
    ELSE LET aiContent == CleanContent(outcome.choices[1].content)
             parsed == JSONParse(aiContent)
         IN IF parsed.ok THEN SuccessResponse(parsed.val)
            ELSE ParseFailedResponse(aiContent)

\* ---------------------------------------------------------------- client

\* maxCount={5} of the Uploader.
uploaderMaxCount == 5

\* The longest working list in use.
MaxList == 2

\* The files the user picks.
PickedFiles == { [mimetype |-> ImagePng, size |-> 500000, originalname |-> 0] }

\* An item of the working list as the Uploader hands it over: it carries
\* the picked file.
Item(f) == [hasFile |-> TRUE, file |-> f]

\* compressImage when it resolves: a JPEG blob, smaller than the cap, sent
\* under the file's name.
CompressedBlob(f) ==
    [mimetype |-> ImageJpeg, size |-> 200000, originalname |-> f.originalname]

\* One formData.append('images', ...): the blob appended for item i, the
\* compressed one or, when compression failed, the file itself.
Entry(i, f, compressed) ==
    [field |-> "images", item |-> i, compressed |-> compressed,
     blob |-> IF compressed THEN CompressedBlob(f) ELSE f]

\* The toasts.
NoToast == [text |-> "", status |-> 0, detail |-> <<>>]
NeedTwoToast == [text |-> "please upload at least 2", status |-> 0, detail |-> <<>>]
AnalysisFailedToast(body) ==
    [text |-> "analysis failed: ", status |-> 0,
     detail |-> IF "message" \in DOMAIN body /\ body.message # <<>>
                THEN body.message ELSE <<"unknown error">>]

\* userMsg of the catch, by status: 413, 504, 500, anything else.
UserMsg(status) ==
    IF status = 500 THEN "server fault, maybe no API key"
    ELSE IF status = 504 THEN "AI took too long"
    ELSE IF status = 413 THEN "images too large"
    ELSE "network request failed"

\* The toast of the catch: userMsg, the status (0: none, shown as Error) and
\* the server's message or, without one, the error's own.
CatchToast(status, serverMsg) ==
    [text |-> UserMsg(status), status |-> status, detail |-> serverMsg]

\* The guard of handleAnalyze with its bound off by one.
TooFewSelectedBelowOne(list) == Len(list) < 1

\* fileList.length < 2
TooFewSelected(list) == Len(list) < 2

\* Promise.race in the place of Promise.all: one settled compression is enough.
AnySettled(t) == \E i \in 1..Len(t) : t[i] # "pending"

\* Promise.all(compressPromises) has resolved: no item's compression is
\* still pending.
AllSettled(t) == \A i \in 1..Len(t) : t[i] # "pending"

\* The effect without its clean-up: the interval is never cleared.
EffectIntervalNoCleanup(was, now, running) == IF was # now /\ now THEN TRUE ELSE running

\* The effect on [analyzing]: when analyzing changes, the clean-up clears
\* the interval, and the effect starts a new one if analyzing is now true.
EffectInterval(was, now, running) == IF was # now THEN now ELSE running

\* ... and sets the stage to 0 when analyzing has become true.
EffectStep(was, now, step) == IF was # now /\ now THEN 0 ELSE step

\* The interval's callback: prev < 3 ? prev + 1 : prev.
NextStep(prev) == IF prev < 3 THEN prev + 1 ELSE prev

\* What the try block does with a resolved response: the result to set.
ResultOf(body, current) ==
    IF body.success THEN body.data ELSE current

VARIABLES
    rpc,            \* the relay's position in the request it is handling
    origin,         \* who posted the request: "http", "client", or "nobody"
    req,            \* the request
    files,          \* req.files
    stage2,         \* whether the second handler has been entered
    contentParts,   \* the message content sent to the model
    calls,          \* calls of the model made for the request
    completion,     \* what the awaited call yielded
    responses,      \* the responses sent for the request
    fileList,       \* the working list
    analyzing,      \* a submit is under way
    result,         \* the result shown, null when none
    loadingStep,    \* the cosmetic stage
    interval,       \* whether the stage timer is running
    cpc,            \* the submit's position: idle, compressing, posted
    submitted,      \* the list handleAnalyze is working on
    tasks,          \* per item of it: pending, compressed, failed, skipped
    formData,       \* the entries appended so far
    posts,          \* POSTs issued by the submit
    outcome,        \* how the last submit ended
    toast           \* the last toast shown

relayVars == <<rpc, origin, req, files, stage2, contentParts, calls, completion, responses>>

clientVars ==
    <<fileList, analyzing, result, loadingStep, interval, cpc, submitted, tasks,
      formData, posts, outcome, toast>>

vars == <<relayVars, clientVars>>

RelayIdle ==
    /\ rpc = "idle"
    /\ origin = "nobody"
    /\ req = NoRequest
    /\ files = NoFiles
    /\ stage2 = FALSE
    /\ contentParts = <<>>
    /\ calls = 0
    /\ completion = NoOutcome
    /\ responses = <<>>

ClientInit ==
    /\ fileList = <<>>
    /\ analyzing = FALSE
    /\ result = JNull
    /\ loadingStep = 0
    /\ interval = FALSE
    /\ cpc = "idle"
    /\ submitted = <<>>
    /\ tasks = <<>>
    /\ formData = <<>>
    /\ posts = 0
    /\ outcome = "none"
    /\ toast = NoToast

Init == RelayIdle /\ ClientInit

\* A request arrives at POST /api/analyze.
Arrive(request, from) ==
    /\ rpc = "idle"
    /\ rpc' = "upload"
    /\ origin' = from
    /\ req' = request
    /\ UNCHANGED <<files, stage2, contentParts, calls, completion, responses>>

\* Any HTTP client posts a request.
HttpPost ==
    /\ \E request \in HttpRequests : Arrive(request, "http")
    /\ UNCHANGED clientVars

\* The first handler: the upload middleware and its callback.
UploadMiddleware ==
    /\ rpc = "upload"
    /\ \E atCap \in BOOLEAN :
          LET err == IF req.multipart THEN UploadArray(req, atCap) ELSE NoError
          IN IF err # NoError
             THEN /\ responses' = Append(responses, UploadErrorResponse(err))
                  /\ rpc' = "done"
                  /\ UNCHANGED files
             ELSE /\ files' = IF req.multipart THEN Files(req.parts) ELSE NoFiles
                  /\ rpc' = "handler"
                  /\ UNCHANGED responses
    /\ UNCHANGED <<origin, req, stage2, contentParts, calls, completion>>
    /\ UNCHANGED clientVars

\* The second handler up to its await: the count check, the prompt, the
\* call of the model.
AnalyzeHandler ==
    /\ rpc = "handler"
    /\ stage2' = TRUE
    /\ IF TooFewFiles(files)
       THEN /\ responses' = Append(responses, TooFewResponse)
            /\ rpc' = "done"
            /\ UNCHANGED <<contentParts, calls>>
       ELSE /\ contentParts' = ContentParts(files.list)
            /\ calls' = calls + 1
            /\ rpc' = "model"
            /\ UNCHANGED responses
    /\ UNCHANGED <<origin, req, files, completion>>
    /\ UNCHANGED clientVars

\* The awaited call settles and the handler runs to its end.
ModelSettles ==
    /\ rpc = "model"
    /\ \E reply \in ModelOutcomes :
          /\ completion' = reply
          /\ responses' = Append(responses, AfterModel(reply))
    /\ rpc' = "done"
    /\ UNCHANGED <<origin, req, files, stage2, contentParts, calls>>
    /\ UNCHANGED clientVars

\* The request is over: nothing of it is kept.
Forget ==
    /\ rpc' = "idle"
    /\ origin' = "nobody"
    /\ req' = NoRequest
    /\ files' = NoFiles
    /\ stage2' = FALSE
    /\ contentParts' = <<>>
    /\ calls' = 0
    /\ completion' = NoOutcome
    /\ responses' = <<>>

\* The HTTP client takes the response.
HttpDone ==
    /\ rpc = "done"
    /\ origin = "http"
    /\ Forget
    /\ UNCHANGED clientVars

RelayNext == HttpPost \/ UploadMiddleware \/ AnalyzeHandler \/ ModelSettles \/ HttpDone

RelaySpec == Init /\ [][RelayNext]_vars

\* ------------------------------------------------------- client actions

\* The upload view is rendered when result is falsy, the report otherwise.
ResultView == Truthy(result)

\* Uploader onChange: a file is added, up to the Uploader's maxCount.
AddFile ==
    /\ ~ResultView
    /\ Len(fileList) < uploaderMaxCount
    /\ Len(fileList) < MaxList
    /\ \E f \in PickedFiles : fileList' = Append(fileList, Item(f))
    /\ UNCHANGED <<analyzing, result, loadingStep, interval, cpc, submitted, tasks,
                   formData, posts, outcome, toast>>
    /\ UNCHANGED relayVars

\* Uploader onChange: an item is deleted.
RemoveFile ==
    /\ ~ResultView
    /\ \E i \in 1..Len(fileList) :
          fileList' = [k \in 1..(Len(fileList) - 1) |->
                          IF k < i THEN fileList[k] ELSE fileList[k + 1]]
    /\ UNCHANGED <<analyzing, result, loadingStep, interval, cpc, submitted, tasks,
                   formData, posts, outcome, toast>>
    /\ UNCHANGED relayVars

\* handleAnalyze up to its first await: the guard, the two state updates
\* (and the effect their commit runs), the start of every compression.  The
\* button is not clickable while it shows loading; its disabled prop repeats
\* the guard below, which is what decides here.
handleAnalyze ==
    /\ ~ResultView
    /\ ~analyzing
    /\ IF TooFewSelected(fileList)
       THEN /\ toast' = NeedTwoToast
            /\ UNCHANGED <<analyzing, result, loadingStep, interval, cpc, submitted,
                           tasks, formData, posts, outcome>>
       ELSE /\ analyzing' = TRUE
            /\ result' = JNull
            /\ loadingStep' = EffectStep(analyzing, TRUE, loadingStep)
            /\ interval' = EffectInterval(analyzing, TRUE, interval)
            /\ cpc' = "compressing"
            /\ submitted' = fileList
            /\ tasks' = [i \in 1..Len(fileList) |->
                            IF fileList[i].hasFile THEN "pending" ELSE "skipped"]
            /\ formData' = <<>>
            /\ posts' = 0
            /\ outcome' = "pending"
            /\ UNCHANGED toast
    /\ UNCHANGED fileList
    /\ UNCHANGED relayVars

\* One item's compressImage settles, and the item's blob is appended: the
\* compressed one when it resolved, the file itself when it rejected.
CompressSettles ==
    /\ cpc = "compressing"
    /\ \E i \in 1..Len(tasks), ok \in BOOLEAN :
          /\ tasks[i] = "pending"
          /\ tasks' = [tasks EXCEPT ![i] = IF ok THEN "compressed" ELSE "failed"]
          /\ formData' = Append(formData, Entry(i, submitted[i].file, ok))
    /\ UNCHANGED <<fileList, analyzing, result, loadingStep, interval, cpc, submitted,
                   posts, outcome, toast>>
    /\ UNCHANGED relayVars

\* After Promise.all: axios.post of the form data.
Post ==
    /\ cpc = "compressing"
    /\ AllSettled(tasks)
    /\ Arrive([multipart |-> TRUE,
               parts |-> [k \in 1..Len(formData) |-> formData[k].blob]], "client")
    /\ posts' = posts + 1
    /\ cpc' = "posted"
    /\ UNCHANGED <<fileList, analyzing, result, loadingStep, interval, submitted, tasks,
                   formData, outcome, toast>>

\* The finally block, and the effect the commit of analyzing = false runs.
Settle ==
    /\ analyzing' = FALSE
    /\ loadingStep' = EffectStep(analyzing, FALSE, loadingStep)
    /\ interval' = EffectInterval(analyzing, FALSE, interval)
    /\ cpc' = "idle"

\* The relay's response arrives: a 2xx resolves the post (the try block goes
\* on), any other status rejects it (the catch).
Receive ==
    /\ cpc = "posted"
    /\ rpc = "done"
    /\ origin = "client"
    /\ LET response == responses[1]
           body == response.body
       IN IF response.status = 200
          THEN /\ result' = ResultOf(body, result)
               /\ toast' = IF body.success THEN toast ELSE AnalysisFailedToast(body)
               /\ outcome' = IF body.success THEN "success" ELSE "failure envelope"
          ELSE /\ toast' = CatchToast(response.status, body.message)
               /\ outcome' = "http error"
               /\ UNCHANGED result
    /\ Settle
    /\ Forget
    /\ UNCHANGED <<fileList, submitted, tasks, formData, posts>>

\* The post fails without the relay's response: no connection, the 120 s
\* timeout, or a 413 or 504 of the hosting in front of the relay.  The
\* client has no further part in the request, which leaves the view here;
\* the relay handles it to its end as it does any request (RelaySpec).
PostFails ==
    /\ cpc = "posted"
    /\ \E status \in {0, 413, 504} :
          /\ toast' = CatchToast(status, <<"axios error">>)
          /\ outcome' = IF status = 0 THEN "network error" ELSE "http error"
    /\ Settle
    /\ Forget
    /\ UNCHANGED <<fileList, result, submitted, tasks, formData, posts>>

\* The interval fires.
Tick ==
    /\ interval
    /\ loadingStep' = NextStep(loadingStep)
    /\ UNCHANGED <<fileList, analyzing, result, interval, cpc, submitted, tasks,
                   formData, posts, outcome, toast>>
    /\ UNCHANGED relayVars

\* reset, the button of the report.
reset ==
    /\ ResultView
    /\ fileList' = <<>>
    /\ result' = JNull
    /\ UNCHANGED <<analyzing, loadingStep, interval, cpc, submitted, tasks, formData,
                   posts, outcome, toast>>
    /\ UNCHANGED relayVars

ClientNext ==
    \/ AddFile \/ RemoveFile \/ handleAnalyze \/ CompressSettles \/ Post
    \/ UploadMiddleware \/ AnalyzeHandler \/ ModelSettles
    \/ Receive \/ PostFails \/ Tick \/ reset

ClientSpec == Init /\ [][ClientNext]_vars

\* ---------------------------------------------------------------- claims

\* The request's entries, and the one response when the relay is done.
Parts == req.parts
Response == responses[1]

\* The model was called and its reply carries a text.
TextReply ==
    /\ calls = 1
    /\ ~completion.threw
    /\ completion.choices # <<>>
    /\ completion.choices[1].isText

ReplyText == completion.choices[1].content

\* A batch of 2 to 5 entries, each an image under the cap.
ValidBatch ==
    /\ req.multipart
    /\ Len(Parts) \in 2..5
    /\ \A i \in 1..Len(Parts) :
          StartsWith(Parts[i].mimetype, ImagePrefix) /\ Parts[i].size < fileSize

\* C1: for a batch of 2 to 5 entries, each an image under the per-file cap,
\* the relay calls the model exactly once, and if the model's reply is
\* well-formed JSON the response is 200 with success = true and data equal to
\* the parsed reply.
C1_ValidBatchReturnsParsedReply ==
    (rpc = "done" /\ ValidBatch) =>
        /\ calls = 1
        /\ (TextReply /\ JSONParse(ReplyText).ok) =>
              responses = <<[status |-> 200,
                             body |-> [success |-> TRUE,
                                       data |-> JSONParse(ReplyText).val]]>>

\* C2: a batch of fewer than 2 files (none at all included) is answered with
\* 400 and success = false, and the model is not called for it.
C2_TooFewFilesIs400 ==
    (rpc = "done" /\ Len(Parts) < 2) =>
        /\ Len(responses) = 1
        /\ Response.status = 400
        /\ Response.body.success = FALSE
        /\ calls = 0

\* A single image reached the count check and was turned down there.
C2_Witness ==
    /\ rpc = "done"
    /\ Len(Parts) = 1
    /\ stage2
    /\ Response = [status |-> 400,
                   body |-> [success |-> FALSE, message |-> <<AtLeastTwo>>]]
    /\ calls = 0

\* An entry the upload layer rejects: no image, or over the cap.
Rejected(f) == ~StartsWith(f.mimetype, ImagePrefix) \/ f.size > fileSize
HasRejected == \E i \in 1..Len(Parts) : Rejected(Parts[i])
UploadMessages == {OnlyImages, FileTooLarge, UnexpectedField}

\* C3: when the upload layer rejects an entry (no image, or over the cap),
\* whatever the other entries, the response is 400 with success = false and
\* the upload layer's message, the second handler is never entered and the
\* model is never called.
C3_RejectedEntryIs400 ==
    HasRejected =>
        /\ ~stage2
        /\ calls = 0
        /\ rpc \in {"upload", "done"}
        /\ rpc = "done" =>
              /\ Len(responses) = 1
              /\ Response.status = 400
              /\ Response.body.success = FALSE
              /\ Response.body.message[Len(Response.body.message)] \in UploadMessages

\* Two good images followed by one over the cap: the upload layer's size
\* error is the answer.
C3_Witness ==
    /\ rpc = "done"
    /\ Len(Parts) = 3
    /\ ~Rejected(Parts[1]) /\ ~Rejected(Parts[2])
    /\ Parts[3].size > fileSize
    /\ Response.body.message = <<UploadErrorPrefix, FileTooLarge>>

\* A text without the fence that opens it (tagged json or not) and the
\* fence that closes it, and without the white space around them.
WithoutOpening(s) ==
    IF StartsWith(s, BackticksJson) THEN Slice(s, Len(BackticksJson) + 1, Len(s))
    ELSE IF StartsWith(s, Backticks) THEN Slice(s, Len(Backticks) + 1, Len(s))
    ELSE s
WithoutClosing(s) ==
    IF Len(s) >= 3 /\ Slice(s, Len(s) - 2, Len(s)) = Backticks
    THEN Slice(s, 1, Len(s) - 3) ELSE s
Unfenced(s) == Trim(WithoutClosing(WithoutOpening(Trim(s))))

\* C4: extraction removes only leading and trailing fence markers and the
\* white space around them: for a reply that is a well-formed JSON text,
\* fenced or not, the data returned is the value of that JSON text, also when
\* a string inside it holds the fence marker.
C4_FencedJsonPassesUnchanged ==
    (rpc = "done" /\ TextReply /\ JSONParse(Unfenced(ReplyText)).ok) =>
        responses = <<[status |-> 200,
                       body |-> [success |-> TRUE,
                                 data |-> JSONParse(Unfenced(ReplyText)).val]]>>

\* The reply is a text that is no JSON once cleaned.
ParseFails == TextReply /\ ~JSONParse(CleanContent(ReplyText)).ok

CallFailed ==
    /\ calls = 1
    /\ rpc = "done"
    /\ completion.threw \/ completion.choices = <<>> \/ ~completion.choices[1].isText

FailureDetail ==
    IF completion.threw THEN completion.detail
    ELSE IF completion.choices = <<>> THEN TypeErrorUndefined
    ELSE TypeErrorNull

\* C6: the model is called at most once per request; when the call fails or
\* its reply has no usable choice, there is no second call and the request
\* gets exactly one response, 500 with success = false and a message that
\* holds the failure's detail.
C6_SingleAttempt ==
    /\ calls <= 1
    /\ Len(responses) <= 1
    /\ rpc = "done" => Len(responses) = 1
    /\ CallFailed =>
          /\ Response.status = 500
          /\ Response.body.success = FALSE
          /\ Response.body.message = <<InternalErrorPrefix, FailureDetail>>

\* The call threw, after a valid batch of three.
C6_Witness ==
    /\ CallFailed
    /\ completion.threw
    /\ Len(Parts) = 3
    /\ Len(responses) = 1

\* C7: when handleAnalyze runs with fewer than 2 items in the working list,
\* no request is issued and the client's state stays as it is: analyzing
\* false, the result neither cleared nor set, the list untouched.
C7_TooFewSubmitChangesNothing ==
    [][(handleAnalyze /\ Len(fileList) < 2) =>
          /\ UNCHANGED <<fileList, analyzing, result, loadingStep, interval, cpc,
                         submitted, tasks, formData, posts, outcome>>
          /\ UNCHANGED relayVars
          /\ ~analyzing']_vars

\* handleAnalyze has run on a list of one item.
C7_Witness ==
    /\ toast = NeedTwoToast
    /\ Len(fileList) = 1
    /\ cpc = "idle"
    /\ outcome = "none"
    /\ posts = 0

\* The step in which the relay's response reaches the client.
Delivered == cpc = "posted" /\ cpc' = "idle" /\ rpc = "done"

\* C8: when the relay answers a submit with a success envelope, the client
\* moves to the result view holding the envelope's data, whatever JSON value
\* the data is; a failure never puts the client in the result view.
C8_SuccessShowsResult ==
    [][/\ (Delivered /\ outcome' = "success") =>
             (ResultView' /\ result' = Response.body.data)
       /\ (cpc = "posted" /\ cpc' = "idle" /\ outcome' # "success") => ~ResultView']_vars

\* The entries of the form data stand for the items 1..n, one each, under
\* the field images, compressed where the compression resolved and the file
\* itself where it rejected.
BodyMatchesTasks ==
    /\ Len(formData) = Len(submitted)
    /\ \A i \in 1..Len(submitted) :
          \E k \in 1..Len(formData) :
             /\ formData[k].item = i
             /\ formData[k].field = "images"
             /\ tasks[i] \in {"compressed", "failed"}
             /\ formData[k].blob = IF tasks[i] = "compressed"
                                   THEN CompressedBlob(submitted[i].file)
                                   ELSE submitted[i].file
    /\ Parts = [k \in 1..Len(formData) |-> formData[k].blob]

\* C9: for a working list of n >= 2 items and any order and outcome of the
\* compressions, one POST is issued per submit, only after every compression
\* has settled, and it carries n entries under images: the compressed blob
\* where the compression resolved, the file itself where it rejected.
C9_OnePostAfterAllSettled ==
    /\ posts <= 1
    /\ posts = 1 => AllSettled(tasks)
    /\ cpc = "compressing" => (posts = 0 /\ origin # "client")
    /\ cpc = "posted" =>
          /\ posts = 1
          /\ origin = "client"
          /\ Len(submitted) >= 2
          /\ BodyMatchesTasks
    /\ (cpc = "idle" /\ outcome # "none") => posts = 1

\* A list of two: the second item's compression resolved first, the first
\* item's rejected.
C9_Witness ==
    /\ cpc = "posted"
    /\ tasks = <<"failed", "compressed">>
    /\ formData[1].item = 2
    /\ formData[2].blob = submitted[1].file

ErrorTexts == {UserMsg(500), UserMsg(504), UserMsg(413), UserMsg(0), "analysis failed: "}

====
